---- MODULE Spec2Model ----
(***************************************************************************)
(* ETLPipeline (src/etl_pipeline.py): an ordered list of (name, fn) steps  *)
(* and run_pipeline(), which runs them in order, records one StepResult    *)
(* per step in a fresh list and re-raises the first Exception a step       *)
(* raises.  The model follows run_pipeline() line by line; the caller, the *)
(* step operations and the wall clock are the environment.                 *)
(*                                                                         *)
(* SnowflakeClient (src/snowflake_client.py) and SnowflakeJobRunner        *)
(* (src/snowflake_jobs.py): one connection attribute, the connect loop     *)
(* over the configured accounts, and the guarded operations that open a    *)
(* cursor, run SQL and close the cursor.  main() (src/main.py) connects,   *)
(* registers four steps, runs the pipeline, closes and prints.  Snowflake  *)
(* (whether a connect or a statement succeeds, whether a row comes back)   *)
(* is the environment.                                                     *)
(***************************************************************************)
EXTENDS Integers, Sequences, FiniteSets, TLC

\* ------------------------------------------------------------- bounds
MaxSteps == 2        \* most steps a caller registers
MaxRuns == 2         \* most calls of run_pipeline() on one runner
MaxTick == 2         \* the wall clock takes the values 0..MaxTick ticks
MaxClockSteps == 1   \* most backward adjustments of the wall clock
MaxCalls == 4        \* most client / job-runner calls a caller makes
EpochUs == 9500000  \* the wall clock at tick 0, in microseconds of the day
TickUs == 500000     \* microseconds per tick

\* ------------------------------------------------ the step operations
\* Python exceptions: a class name and the args tuple.
NoExc == [cls |-> "", args |-> <<>>]
Exc(cls, args) == [cls |-> cls, args |-> args]

\* The classes `except Exception` catches; SystemExit and KeyboardInterrupt
\* derive from BaseException only and pass through it.
ExceptionClasses ==
    {"Exception", "KeyError", "RuntimeError", "AttributeError", "TypeError",
     "DatabaseError", "ProgrammingError"}
IsException(e) == e.cls \in ExceptionClasses

\* How a call of fn() ends.
Pending == [kind |-> "pending", value |-> "", exc |-> NoExc]
Returns(v) == [kind |-> "return", value |-> v, exc |-> NoExc]
Raises(cls, args) == [kind |-> "raise", value |-> "", exc |-> Exc(cls, args)]

\* ------------------------------------- the client, the job runner, main
VARIABLES
    snowflake_connection,  \* client.snowflake_connection: 0 for None, else a
                           \* reference into connections
    connections,     \* the connection objects created so far: account, close() calls
    cursors,         \* the cursors opened so far: opener, execute() and close() calls
    sql_count,       \* statements sent to Snowflake so far
    top,             \* the method the caller has called, "" between calls
    method,          \* the guarded method now running (top itself or one it calls)
    plan,            \* the guarded methods top still has to call after this one
    cpc,             \* where the running method is
    account_i,       \* the position of connect_to_snowflake's loop
    last_error,      \* connect_to_snowflake's local `last_error`
    cur,             \* the local `cur`: a reference into cursors, 0 without one
    pending,         \* what the try block ended with, held while finally runs
    ret,             \* what the finished call gave its caller
    attempts,        \* the connects the last connect_to_snowflake() tried
    frame0,          \* what the caller saw when it made the call
    oplog,           \* the finished calls: method, result, what they did
    mpc,             \* where main() is
    main_exc,        \* the exception main() ended with, if any
    printed          \* the lines of main()'s report

cvars == <<snowflake_connection, connections, cursors, sql_count, top, method, plan,
           cpc, account_i, last_error, cur, pending, ret, attempts, frame0, oplog>>
mvars == <<mpc, main_exc, printed>>

\* No call has finished (or its result has been taken).
NoRet == [kind |-> "none", value |-> "", exc |-> NoExc]

\* config.connection_accounts
ConnectionAccounts ==
    <<"lb52747.eu-north-1.aws", "LB52747.eu-north-1.aws", "lb52747", "LB52747">>

\* The methods the two classes define.
ClientMethods ==
    {"connect_to_snowflake", "close_connection", "fetch_dataframe_from_sql",
     "show_session_info"}
JobRunnerMethods ==
    {"execute_sql", "query_value", "count_rows", "create_stage_if_not_exists",
     "copy_query_results_to_stage_csv", "download_stage_to_local"}

\* The methods that begin with `if not ...snowflake_connection: raise`.
GuardedMethods ==
    {"fetch_dataframe_from_sql", "show_session_info", "execute_sql", "query_value",
     "download_stage_to_local"}

\* The guarded methods a call of m runs, in order: itself, or the ones it is
\* written in terms of.
Plan(m) ==
    CASE m = "count_rows" -> <<"query_value">>
      [] m = "create_stage_if_not_exists" -> <<"execute_sql">>
      [] m = "copy_query_results_to_stage_csv" -> <<"execute_sql", "execute_sql">>
      [] OTHER -> <<m>>

\* main()'s four steps: the name and the callable registered under it, and the
\* attribute of client / jobs the callable calls.
MainSteps ==
    <<"session_info", "validate_mart_has_rows", "copy_into_stage", "download_from_stage">>
StepCalls(fn) ==
    CASE fn = "session_info" -> "show_session_info"
      [] fn = "validate_mart_has_rows" -> "rowcount"
      [] fn = "copy_into_stage" -> "copy_query_to_stage_csv"
      [] fn = "download_from_stage" -> "download_stage_to_local"
IsMainStep(fn) == \E k \in 1..Len(MainSteps) : MainSteps[k] = fn

\* The message a step of main() returns around the value v its call gave.
StepMessage(fn, v) ==
    CASE fn = "session_info" -> "Session: " \o v
      [] fn = "validate_mart_has_rows" -> "VLO_SNOWFLAKE_LAB.ANALYTICS.MART_CUSTOMER_KPIS rows=" \o v
      [] fn = "copy_into_stage" -> "Copied to stage: " \o v
      [] fn = "download_from_stage" -> "Downloaded " \o v \o " file(s) to: exports"

\* How a call of a step of main() ends: the attribute lookup on jobs raises
\* AttributeError for a name the class does not define; otherwise the step
\* ends as the method it called ended, once that has ended.
MainStepEndings(fn) ==
    IF StepCalls(fn) \notin ClientMethods \cup JobRunnerMethods
    THEN {Raises("AttributeError",
                 <<"'SnowflakeJobRunner' object has no attribute '" \o StepCalls(fn) \o "'">>)}
    ELSE IF ret.kind = "return" THEN {Returns(StepMessage(fn, ret.value))}
    ELSE IF ret.kind = "raise" THEN {ret}
    ELSE {}

\* The names and the zero-argument callables a caller registers.
StepNames == {"a", "b"}
Fns == {"ok_a", "boom", "query", "exit", "hang"}

\* The ways a call of each callable can end.  ok_a and boom are deterministic;
\* query closes over external state; exit calls sys.exit(); hang never ends
\* (it waits for a reply that does not come).
Endings(fn) ==
    CASE fn = "ok_a" -> {Returns("ok-a")}
      [] fn = "boom" -> {Raises("Exception", <<"boom">>)}
      [] fn = "query" -> {Returns("rows=0"), Returns("rows=1"), Raises("KeyError", <<"rows">>)}
      [] fn = "exit" -> {Raises("SystemExit", <<>>)}
      [] fn = "hang" -> {}
      [] IsMainStep(fn) -> MainStepEndings(fn)

\* repr() of a str (no quote inside the modelled strings).
Repr(s) == "'" \o s \o "'"

\* repr() of the elements of a tuple of str, joined by ", ".
RECURSIVE ReprJoin(_)
ReprJoin(args) ==
    IF Len(args) = 0 THEN ""
    ELSE IF Len(args) = 1 THEN Repr(args[1])
    ELSE Repr(args[1]) \o ", " \o ReprJoin(Tail(args))

\* str(e): BaseException.__str__ gives "" for no args, str(args[0]) for one
\* and str(args) for more; KeyError.__str__ gives repr(args[0]) for one.
Str(e) ==
    IF Len(e.args) = 0 THEN ""
    ELSE IF Len(e.args) = 1
         THEN (IF e.cls = "KeyError" THEN Repr(e.args[1]) ELSE e.args[1])
    ELSE "(" \o ReprJoin(e.args) \o ")"

\* ------------------------------------------------------- the wall clock
\* One-character strings and their code points, as Python's str comparison
\* orders them.
Digits == <<"0", "1", "2", "3", "4", "5", "6", "7", "8", "9">>
Digit(d) == Digits[d + 1]
Ord(c) ==
    CASE c = "." -> 46
      [] c = ":" -> 58
      [] OTHER -> 47 + CHOOSE k \in 1..10 : Digits[k] = c

\* "%02d" and "%06d".
Pad2(n) == <<Digit((n \div 10) % 10), Digit(n % 10)>>
Pad6(n) ==
    <<Digit((n \div 100000) % 10), Digit((n \div 10000) % 10),
      Digit((n \div 1000) % 10), Digit((n \div 100) % 10),
      Digit((n \div 10) % 10), Digit(n % 10)>>

\* isoformat() with its fields written without leading zeros (%d for %02d).
Unpadded(n) == IF n < 10 THEN <<Digit(n)>> ELSE Pad2(n)
IsoFormatUnpadded(us) ==
    LET micro == us % 1000000
        secs == us \div 1000000
        hms == Unpadded(secs \div 3600) \o <<":">> \o Unpadded((secs \div 60) % 60)
               \o <<":">> \o Unpadded(secs % 60)
    IN  IF micro = 0 THEN hms ELSE hms \o <<".">> \o Pad6(micro)

\* datetime.isoformat() of a time us microseconds into the day: HH:MM:SS, and
\* .ffffff only when the microsecond field is not zero.  The date part before
\* it has a fixed width and is the same all day; it is left out.
IsoFormat(us) ==
    LET micro == us % 1000000
        secs == us \div 1000000
        hms == Pad2(secs \div 3600) \o <<":">> \o Pad2((secs \div 60) % 60)
               \o <<":">> \o Pad2(secs % 60)
    IN  IF micro = 0 THEN hms ELSE hms \o <<".">> \o Pad6(micro)

\* Python's s <= t on str: by code point, a proper prefix first.
RECURSIVE StrLeq(_, _)
StrLeq(s, t) ==
    IF Len(s) = 0 THEN TRUE
    ELSE IF Len(t) = 0 THEN FALSE
    ELSE IF Ord(s[1]) < Ord(t[1]) THEN TRUE
    ELSE IF Ord(s[1]) > Ord(t[1]) THEN FALSE
    ELSE StrLeq(Tail(s), Tail(t))

VARIABLES
    pipeline_steps,  \* self.pipeline_steps: the registered (name, fn) pairs
    pc,              \* where the caller / run_pipeline() is
    idx,             \* the position of the for loop in pipeline_steps
    results,         \* the local `results`: a reference into heap, 0 without a frame
    started_at,      \* the local `started_at`
    e,               \* the exception bound by `except Exception as e`
    heap,            \* the list objects created so far, by reference
    now,             \* the wall clock at its last read, in ticks
    clock_steps,     \* backward adjustments of the clock so far
    calls,           \* this run's calls of step operations: position and ending
    reads,           \* this run's clock reads, in ticks: one pair per call
    history          \* what the caller got from each finished run

pvars == <<pipeline_steps, pc, idx, results, started_at, e, heap, now, clock_steps,
           calls, reads, history>>
vars == <<pvars, cvars, mvars>>

\* The microseconds of the day at tick t.
Micros(t) == EpochUs + t * TickUs

\* The ticks a read of the wall clock can give after the last read gave `now`:
\* the same or a later one, or an earlier one when the clock was set back in
\* between (an NTP step, an operator): the system's real-time clock, which
\* utcnow() reads, is not monotonic.
ClockReads ==
    (now..MaxTick) \cup (IF clock_steps < MaxClockSteps THEN 0..(now - 1) ELSE {})

\* datetime.utcnow() gives tick t.
UtcNow(t) ==
    /\ t \in ClockReads
    /\ now' = t
    /\ clock_steps' = IF t < now THEN clock_steps + 1 ELSE clock_steps

StepResult(name, ok, message, s, f) ==
    [name |-> name, ok |-> ok, message |-> message, started_at |-> s, finished_at |-> f]

Init ==
    /\ pipeline_steps = <<>>
    /\ pc = "caller"
    /\ idx = 0
    /\ results = 0
    /\ started_at = <<>>
    /\ e = NoExc
    /\ heap = <<>>
    /\ now = 0
    /\ clock_steps = 0
    /\ calls = <<>>
    /\ reads = <<>>
    /\ history = <<>>
    /\ snowflake_connection = 0
    /\ connections = <<>>
    /\ cursors = <<>>
    /\ sql_count = 0
    /\ top = ""
    /\ method = ""
    /\ plan = <<>>
    /\ cpc = "idle"
    /\ account_i = 0
    /\ last_error = NoExc
    /\ cur = 0
    /\ pending = NoRet
    /\ ret = NoRet
    /\ attempts = <<>>
    /\ frame0 = [conn |-> 0, conns |-> 0, cursors |-> 0, sql |-> 0]
    /\ oplog = <<>>
    /\ mpc = "line32"
    /\ main_exc = NoExc
    /\ printed = <<>>

\* ------------------------------------------------------------ the caller
\* What the caller holds after a run: the list run_pipeline() returned, or the
\* exception that came out of it (and then no list: `results` was a local of
\* the frame the exception left).
Returned(ref) == [kind |-> "returned", value |-> ref, exc |-> NoExc, steps |-> pipeline_steps]
Raised(x) == [kind |-> "raised", value |-> 0, exc |-> x, steps |-> pipeline_steps]

\* Registration that keeps one step per name: a step registered under a name
\* already there takes the place of the older one.
add_steps_unique_names(name, fn) ==
    /\ pc = "caller"
    /\ pipeline_steps' =
         IF \E k \in 1..Len(pipeline_steps) : pipeline_steps[k][1] = name
         THEN [k \in 1..Len(pipeline_steps) |->
                 IF pipeline_steps[k][1] = name THEN <<name, fn>> ELSE pipeline_steps[k]]
         ELSE Append(pipeline_steps, <<name, fn>>)
    /\ UNCHANGED <<pc, idx, results, started_at, e, heap, now, clock_steps,
                   calls, reads, history>>

\* add_steps_to_pipeline(name, fn)
add_steps_to_pipeline(name, fn) ==
    /\ pc = "caller"
    /\ pipeline_steps' = Append(pipeline_steps, <<name, fn>>)
    /\ UNCHANGED <<pc, idx, results, started_at, e, heap, now, clock_steps,
                   calls, reads, history>>

\* One list kept on the runner and used again by every run.
NewListReused == IF heap = <<>> THEN Len(heap) + 1 ELSE Len(heap)

\* results: List[StepResult] = []  -- a new list object, referred to by its
\* place in the heap.
NewList == Len(heap) + 1

\* run_pipeline() is called: the frame's `results` is a new empty list and the
\* for loop starts at the first step.
run_pipeline ==
    /\ pc = "caller"
    /\ Len(history) < MaxRuns
    /\ results' = NewList
    /\ heap' = IF NewList > Len(heap) THEN Append(heap, <<>>) ELSE heap
    /\ idx' = 1
    /\ pc' = "for"
    /\ calls' = <<>>
    /\ reads' = <<>>
    /\ UNCHANGED <<pipeline_steps, started_at, e, now, clock_steps, history>>

\* for name, fn in self.pipeline_steps: started_at is read off the clock and
\* fn() is called.
ForStep ==
    /\ pc = "for"
    /\ idx <= Len(pipeline_steps)
    /\ \E t \in 0..MaxTick :
        /\ UtcNow(t)
        /\ started_at' = IsoFormat(Micros(t))
        /\ reads' = Append(reads, [s |-> t, f |-> -1])
    /\ pc' = "call"
    /\ calls' = Append(calls, [pos |-> idx, ending |-> Pending])
    /\ UNCHANGED <<pipeline_steps, idx, results, e, heap, history>>

\* The list keeps only the latest outcome.
ResultsAppendOverwrite(r) ==
    [heap EXCEPT ![results] = IF @ = <<>> THEN <<r>> ELSE [@ EXCEPT ![Len(@)] = r]]

\* results.insert(0, r)
ResultsPrepend(r) == [heap EXCEPT ![results] = <<r>> \o @]

\* results.append(r)
ResultsAppend(r) == [heap EXCEPT ![results] = Append(@, r)]

\* The ghost records of the call in progress, once it has ended.
CallEnded(ending) == [calls EXCEPT ![Len(calls)].ending = ending]
SecondRead(t) == [reads EXCEPT ![Len(reads)].f = t]

\* The loop skips a step.
NextStepSkips == idx + 2

\* The loop stays on the step it has just run.
NextStepStays == idx

\* The loop goes on with the next step.
NextStep == idx + 1

\* fn() returned message: finished_at is read and an ok outcome is appended.
FnReturns ==
    /\ pc = "call"
    /\ \E ending \in Endings(pipeline_steps[idx][2]), t \in 0..MaxTick :
        /\ ending.kind = "return"
        /\ UtcNow(t)
        /\ heap' = ResultsAppend(StepResult(pipeline_steps[idx][1], TRUE, ending.value,
                                            started_at, IsoFormat(Micros(t))))
        /\ calls' = CallEnded(ending)
        /\ reads' = SecondRead(t)
    /\ idx' = NextStep
    /\ pc' = "for"
    /\ UNCHANGED <<pipeline_steps, results, started_at, e, history>>

\* The failed outcome marked ok.
FailedResultOk(x, t) ==
    StepResult(pipeline_steps[idx][1], TRUE, Str(x), started_at, IsoFormat(Micros(t)))

\* The failed outcome with e.args[0] for str(e).
FailedResultArg(x, t) ==
    StepResult(pipeline_steps[idx][1], FALSE, IF Len(x.args) = 0 THEN "" ELSE x.args[1],
               started_at, IsoFormat(Micros(t)))

\* The outcome the except clause appends for the exception x.
FailedResult(x, t) ==
    StepResult(pipeline_steps[idx][1], FALSE, Str(x), started_at, IsoFormat(Micros(t)))

\* fn() raised an Exception: finished_at is read, a failed outcome is appended
\* and the handler is at its bare `raise`.
FnRaisesException ==
    /\ pc = "call"
    /\ \E ending \in Endings(pipeline_steps[idx][2]), t \in 0..MaxTick :
        /\ ending.kind = "raise"
        /\ IsException(ending.exc)
        /\ UtcNow(t)
        /\ e' = ending.exc
        /\ heap' = ResultsAppend(FailedResult(ending.exc, t))
        /\ calls' = CallEnded(ending)
        /\ reads' = SecondRead(t)
    /\ pc' = "raise"
    /\ UNCHANGED <<pipeline_steps, idx, results, started_at, history>>

\* The frame of run_pipeline() is left: its locals are gone.
LeaveFrame ==
    /\ results' = 0
    /\ idx' = 0
    /\ started_at' = <<>>
    /\ e' = NoExc

\* fn() raised something `except Exception` does not catch: it leaves
\* run_pipeline() at once.
FnRaisesOther ==
    /\ pc = "call"
    /\ \E ending \in Endings(pipeline_steps[idx][2]) :
        /\ ending.kind = "raise"
        /\ ~IsException(ending.exc)
        /\ calls' = CallEnded(ending)
        /\ history' = Append(history, Raised(ending.exc))
    /\ LeaveFrame
    /\ pc' = "caller"
    /\ UNCHANGED <<pipeline_steps, heap, now, clock_steps, reads>>

\* The handler runs the failed step again.
ReraiseRetries ==
    /\ pc = "raise"
    /\ e' = NoExc
    /\ pc' = "for"
    /\ UNCHANGED <<pipeline_steps, idx, results, started_at, heap, now, clock_steps,
                   calls, reads, history>>

\* The handler swallows the exception and the loop goes on.
ReraiseContinues ==
    /\ pc = "raise"
    /\ e' = NoExc
    /\ idx' = idx + 1
    /\ pc' = "for"
    /\ UNCHANGED <<pipeline_steps, results, started_at, heap, now, clock_steps,
                   calls, reads, history>>

\* The handler swallows the exception and returns the report.
ReraiseReturns ==
    /\ pc = "raise"
    /\ history' = Append(history, Returned(results))
    /\ LeaveFrame
    /\ pc' = "caller"
    /\ UNCHANGED <<pipeline_steps, heap, now, clock_steps, calls, reads>>

\* raise: the caught exception goes on to the caller.
Reraise ==
    /\ pc = "raise"
    /\ history' = Append(history, Raised(e))
    /\ LeaveFrame
    /\ pc' = "caller"
    /\ UNCHANGED <<pipeline_steps, heap, now, clock_steps, calls, reads>>

\* return results or None
ReturnResultsOrNone ==
    /\ pc = "for"
    /\ idx > Len(pipeline_steps)
    /\ history' = Append(history, Returned(IF heap[results] = <<>> THEN 0 ELSE results))
    /\ LeaveFrame
    /\ pc' = "caller"
    /\ UNCHANGED <<pipeline_steps, heap, now, clock_steps, calls, reads>>

\* return results, after the last step.
ReturnResults ==
    /\ pc = "for"
    /\ idx > Len(pipeline_steps)
    /\ history' = Append(history, Returned(results))
    /\ LeaveFrame
    /\ pc' = "caller"
    /\ UNCHANGED <<pipeline_steps, heap, now, clock_steps, calls, reads>>

\* A caller of the runner alone: the client and main() are not in play.
Next ==
    \/ \E name \in StepNames, fn \in Fns :
         /\ Len(pipeline_steps) < MaxSteps
         /\ add_steps_to_pipeline(name, fn)
         /\ UNCHANGED <<cvars, mvars>>
    \/ run_pipeline /\ UNCHANGED <<cvars, mvars>>
    \/ ForStep /\ UNCHANGED <<cvars, mvars>>
    \/ FnReturns /\ UNCHANGED <<cvars, mvars>>
    \/ FnRaisesException /\ UNCHANGED <<cvars, mvars>>
    \/ FnRaisesOther /\ UNCHANGED <<cvars, mvars>>
    \/ Reraise /\ UNCHANGED <<cvars, mvars>>
    \/ ReturnResults /\ UNCHANGED <<cvars, mvars>>

Spec == Init /\ [][Next]_vars

\* run_pipeline() runs in the caller's thread and nothing suspends it: a step
\* of the loop that can be taken is taken, and an operation that can end does
\* end.  The caller is free to register, to run, or to do neither.
OperationEnds == FnReturns \/ FnRaisesException \/ FnRaisesOther
SpecLive ==
    /\ Spec
    /\ WF_vars(ForStep /\ UNCHANGED <<cvars, mvars>>)
    /\ WF_vars(OperationEnds /\ UNCHANGED <<cvars, mvars>>)
    /\ WF_vars(Reraise /\ UNCHANGED <<cvars, mvars>>)
    /\ WF_vars(ReturnResults /\ UNCHANGED <<cvars, mvars>>)

\* ------------------------------------------------ the client's methods
\* What the caller can see of the client and of Snowflake's side.
Snapshot ==
    [conn |-> snowflake_connection, conns |-> Len(connections),
     cursors |-> Len(cursors), sql |-> sql_count]

\* The call of m that began at `before` ends with r: the caller has r.  (The
\* log entry reads the state the ending step leaves.)
Finish(m, before, r) ==
    /\ ret' = r
    /\ oplog' = Append(oplog, [method |-> m, result |-> r, before |-> before,
                               after |-> [conn |-> snowflake_connection',
                                          conns |-> Len(connections'),
                                          cursors |-> Len(cursors'),
                                          sql |-> sql_count']])
    /\ top' = ""
    /\ method' = ""
    /\ plan' = <<>>
    /\ cpc' = "idle"

\* The caller calls m.
Enter(m) ==
    /\ cpc = "idle"
    /\ top' = m
    /\ frame0' = Snapshot
    /\ ret' = NoRet

\* connect_to_snowflake() is called: last_error = None and the loop starts at
\* the first account.
connect_to_snowflake ==
    /\ Enter("connect_to_snowflake")
    /\ cpc' = "connect"
    /\ account_i' = 1
    /\ last_error' = NoExc
    /\ attempts' = <<>>
    /\ UNCHANGED <<snowflake_connection, connections, cursors, sql_count, method, plan,
                   cur, pending, oplog>>

\* The connect succeeds and the connection is stored, but the loop goes on.
ConnectSucceedsNoReturn ==
    /\ cpc = "connect"
    /\ account_i <= Len(ConnectionAccounts)
    /\ connections' = Append(connections,
                             [account |-> ConnectionAccounts[account_i], closes |-> 0])
    /\ snowflake_connection' = Len(connections) + 1
    /\ attempts' = Append(attempts, [account |-> ConnectionAccounts[account_i], ok |-> TRUE])
    /\ account_i' = account_i + 1
    /\ UNCHANGED <<cursors, sql_count, top, method, plan, cpc, last_error, cur, pending,
                   ret, frame0, oplog>>

\* snowflake.connector.connect(account=account, ...) succeeds: the new
\* connection is stored and the method returns.
ConnectSucceeds ==
    /\ cpc = "connect"
    /\ account_i <= Len(ConnectionAccounts)
    /\ connections' = Append(connections,
                             [account |-> ConnectionAccounts[account_i], closes |-> 0])
    /\ snowflake_connection' = Len(connections) + 1
    /\ attempts' = Append(attempts, [account |-> ConnectionAccounts[account_i], ok |-> TRUE])
    /\ UNCHANGED <<cursors, sql_count, account_i, last_error, cur, pending, frame0>>
    /\ Finish(top, frame0, Returns("None"))

\* The connect raises: last_error = e and the loop goes on with the next
\* account.
ConnectFails ==
    /\ cpc = "connect"
    /\ account_i <= Len(ConnectionAccounts)
    /\ last_error' = Exc("DatabaseError", <<ConnectionAccounts[account_i]>>)
    /\ attempts' = Append(attempts, [account |-> ConnectionAccounts[account_i], ok |-> FALSE])
    /\ account_i' = account_i + 1
    /\ UNCHANGED <<snowflake_connection, connections, cursors, sql_count, top, method,
                   plan, cpc, cur, pending, ret, frame0, oplog>>

\* The loop is over: raise RuntimeError("Could not connect to Snowflake").
ConnectGivesUp ==
    /\ cpc = "connect"
    /\ account_i > Len(ConnectionAccounts)
    /\ UNCHANGED <<snowflake_connection, connections, cursors, sql_count, account_i,
                   last_error, cur, pending, attempts, frame0>>
    /\ Finish(top, frame0, Raises("RuntimeError", <<"Could not connect to Snowflake">>))

\* if self.snowflake_connection: close() it and set the attribute to None.
CloseHeld ==
    IF snowflake_connection # 0
    THEN /\ connections' = [connections EXCEPT ![snowflake_connection].closes = @ + 1]
         /\ snowflake_connection' = 0
    ELSE UNCHANGED <<snowflake_connection, connections>>

\* close_connection(), beginning to end.
close_connection ==
    /\ cpc = "idle"
    /\ CloseHeld
    /\ UNCHANGED <<cursors, sql_count, account_i, last_error, cur, pending, attempts,
                   frame0>>
    /\ Finish("close_connection", Snapshot, Returns("None"))

\* The caller calls one of the methods that run SQL: m is a guarded method or
\* one written in terms of guarded methods, and its first guarded method is at
\* its guard.
Call(m) ==
    /\ Enter(m)
    /\ method' = Head(Plan(m))
    /\ plan' = Tail(Plan(m))
    /\ cpc' = "guard"
    /\ UNCHANGED <<snowflake_connection, connections, cursors, sql_count, account_i,
                   last_error, cur, pending, attempts, oplog>>

\* if not ...snowflake_connection: raise RuntimeError("Not connected to
\* Snowflake"); it goes through the methods above to the caller.
NotConnected ==
    /\ cpc = "guard"
    /\ snowflake_connection = 0
    /\ UNCHANGED <<snowflake_connection, connections, cursors, sql_count, account_i,
                   last_error, cur, pending, attempts, frame0>>
    /\ Finish(top, frame0, Raises("RuntimeError", <<"Not connected to Snowflake">>))

\* The cursor is opened before the connection is looked at.
CanOpenCursorUnguarded == TRUE

\* Past the guard: there is a connection.
CanOpenCursor == snowflake_connection # 0

\* cur = ...snowflake_connection.cursor()
OpenCursor ==
    /\ cpc = "guard"
    /\ CanOpenCursor
    /\ method # "fetch_dataframe_from_sql"
    /\ cursors' = Append(cursors, [by |-> method, executes |-> 0, closes |-> 0])
    /\ cur' = Len(cursors) + 1
    /\ cpc' = "execute"
    /\ UNCHANGED <<snowflake_connection, connections, sql_count, top, method, plan,
                   account_i, last_error, pending, ret, attempts, frame0, oplog>>

\* return pd.read_sql(sql, self.snowflake_connection): pandas runs the
\* statement; it gives a frame or raises.
ReadSql ==
    /\ cpc = "guard"
    /\ snowflake_connection # 0
    /\ method = "fetch_dataframe_from_sql"
    /\ sql_count' = sql_count + 1
    /\ UNCHANGED <<snowflake_connection, connections, cursors, account_i, last_error,
                   cur, pending, attempts, frame0>>
    /\ \E r \in {Returns("DataFrame"), Raises("DatabaseError", <<"read_sql">>)} :
         Finish(top, frame0, r)

\* cur.execute(sql) returns: execute_sql() has nothing more to do in its try
\* block, the others fetch.
ExecuteSucceeds ==
    /\ cpc = "execute"
    /\ cursors' = [cursors EXCEPT ![cur].executes = @ + 1]
    /\ sql_count' = sql_count + 1
    /\ IF method = "execute_sql"
       THEN pending' = Returns("None") /\ cpc' = "finally"
       ELSE pending' = pending /\ cpc' = "fetch"
    /\ UNCHANGED <<snowflake_connection, connections, top, method, plan, account_i,
                   last_error, cur, ret, attempts, frame0, oplog>>

\* cur.execute(sql) raises: the try block is left for the finally clause.
ExecuteFails ==
    /\ cpc = "execute"
    /\ cursors' = [cursors EXCEPT ![cur].executes = @ + 1]
    /\ sql_count' = sql_count + 1
    /\ pending' = Raises("ProgrammingError", <<"SQL compilation error">>)
    /\ cpc' = "finally"
    /\ UNCHANGED <<snowflake_connection, connections, top, method, plan, account_i,
                   last_error, cur, ret, attempts, frame0, oplog>>

\* What the rest of the try block gives, with a row fetched or none:
\* show_session_info() subscripts the row, query_value() returns row[0] or
\* None, download_stage_to_local() counts the rows of fetchall() or [].
FetchResult(m, row) ==
    CASE m = "show_session_info" ->
           IF row THEN Returns("{'current_account': 'LB52747'}")
           ELSE Raises("TypeError", <<"'NoneType' object is not subscriptable">>)
      [] m = "query_value" -> IF row THEN Returns("42") ELSE Returns("None")
      [] m = "download_stage_to_local" -> IF row THEN Returns("1") ELSE Returns("0")

\* row = cur.fetchone() / results = cur.fetchall() or [], and the return
\* statement of the try block.
Fetch ==
    /\ cpc = "fetch"
    /\ \E row \in BOOLEAN : pending' = FetchResult(method, row)
    /\ cpc' = "finally"
    /\ UNCHANGED <<snowflake_connection, connections, cursors, sql_count, top, method,
                   plan, account_i, last_error, cur, ret, attempts, frame0, oplog>>

\* What the called method makes of the result r of its last guarded method:
\* count_rows() converts it with int(), copy_query_results_to_stage_csv()
\* returns the stage path it built, create_stage_if_not_exists() returns None.
Result(m, r) ==
    IF r.kind # "return" THEN r
    ELSE CASE m = "count_rows" ->
                IF r.value = "None"
                THEN Raises("TypeError", <<"int() argument must be a string, a bytes-like object or a real number, not 'NoneType'">>)
                ELSE r
           [] m = "copy_query_results_to_stage_csv" ->
                Returns("@VLO_EXPORT_STAGE/customer_kpis/top10/")
           [] m = "create_stage_if_not_exists" -> Returns("None")
           [] OTHER -> r

\* The cursor is closed only when the try block returned.
ClosedCursorsUnlessRaised ==
    IF pending.kind = "return" THEN [cursors EXCEPT ![cur].closes = @ + 1] ELSE cursors

\* cur.close()
ClosedCursors == [cursors EXCEPT ![cur].closes = @ + 1]

\* finally: cur.close(); then the guarded method ends as its try block ended.
\* A method written in terms of it goes on with its next guarded method after
\* a return, and ends with the exception after a raise.
CloseCursor ==
    /\ cpc = "finally"
    /\ cursors' = ClosedCursors
    /\ cur' = 0
    /\ pending' = NoRet
    /\ UNCHANGED <<snowflake_connection, connections, sql_count, account_i, last_error,
                   attempts, frame0>>
    /\ IF pending.kind = "return" /\ plan # <<>>
       THEN /\ method' = Head(plan)
            /\ plan' = Tail(plan)
            /\ cpc' = "guard"
            /\ UNCHANGED <<top, ret, oplog>>
       ELSE Finish(top, frame0, Result(top, pending))

\* The methods a caller can call besides connect and close.
SqlMethods ==
    GuardedMethods \cup {"count_rows", "create_stage_if_not_exists",
                         "copy_query_results_to_stage_csv"}

\* A caller of the client and the job runner: it makes up to MaxCalls calls,
\* in any order, one at a time.
NextClient ==
    \/ Len(oplog) < MaxCalls /\ connect_to_snowflake /\ UNCHANGED <<pvars, mvars>>
    \/ Len(oplog) < MaxCalls /\ close_connection /\ UNCHANGED <<pvars, mvars>>
    \/ \E m \in SqlMethods : Len(oplog) < MaxCalls /\ Call(m) /\ UNCHANGED <<pvars, mvars>>
    \/ ConnectSucceeds /\ UNCHANGED <<pvars, mvars>>
    \/ ConnectFails /\ UNCHANGED <<pvars, mvars>>
    \/ ConnectGivesUp /\ UNCHANGED <<pvars, mvars>>
    \/ NotConnected /\ UNCHANGED <<pvars, mvars>>
    \/ OpenCursor /\ UNCHANGED <<pvars, mvars>>
    \/ ReadSql /\ UNCHANGED <<pvars, mvars>>
    \/ ExecuteSucceeds /\ UNCHANGED <<pvars, mvars>>
    \/ ExecuteFails /\ UNCHANGED <<pvars, mvars>>
    \/ Fetch /\ UNCHANGED <<pvars, mvars>>
    \/ CloseCursor /\ UNCHANGED <<pvars, mvars>>

SpecClient == Init /\ [][NextClient]_vars

\* ------------------------------------------------------------- main()
\* Lines 23-29 build config, pipeline and client: the initial state.
\* client.connect_to_snowflake()
MainConnect ==
    /\ mpc = "line32"
    /\ connect_to_snowflake
    /\ mpc' = "in32"
    /\ UNCHANGED <<pvars, main_exc, printed>>

\* The result of the call in progress is taken.
TakeRet ==
    /\ ret' = NoRet
    /\ UNCHANGED <<snowflake_connection, connections, cursors, sql_count, top, method,
                   plan, cpc, account_i, last_error, cur, pending, attempts, frame0,
                   oplog>>

\* connect_to_snowflake() returned: main() goes on to build jobs and register
\* its steps.
MainConnected ==
    /\ mpc = "in32"
    /\ cpc = "idle"
    /\ ret.kind = "return"
    /\ TakeRet
    /\ mpc' = "line40"
    /\ UNCHANGED <<pvars, main_exc, printed>>

\* connect_to_snowflake() raised: nothing in main() catches it.
MainConnectRaised ==
    /\ mpc = "in32"
    /\ cpc = "idle"
    /\ ret.kind = "raise"
    /\ main_exc' = ret.exc
    /\ TakeRet
    /\ mpc' = "ended"
    /\ UNCHANGED <<pvars, printed>>

\* pipeline.add_steps_to_pipeline(...), four times: each step is registered
\* under its name.
MainRegister ==
    /\ mpc = "line40"
    /\ Len(pipeline_steps) < Len(MainSteps)
    /\ add_steps_to_pipeline(MainSteps[Len(pipeline_steps) + 1],
                             MainSteps[Len(pipeline_steps) + 1])
    /\ mpc' = IF Len(pipeline_steps) + 1 = Len(MainSteps) THEN "line96" ELSE "line40"
    /\ UNCHANGED <<cvars, main_exc, printed>>

\* results = pipeline.run_pipeline(): the call.
MainRun ==
    /\ mpc = "line96"
    /\ run_pipeline
    /\ mpc' = "in96"
    /\ UNCHANGED <<cvars, main_exc, printed>>

\* The step in progress calls its method of client / jobs, which exists.
StepCallsMethod ==
    /\ pc = "call"
    /\ IsMainStep(pipeline_steps[idx][2])
    /\ StepCalls(pipeline_steps[idx][2]) \in ClientMethods \cup JobRunnerMethods
    /\ ret = NoRet
    /\ Call(StepCalls(pipeline_steps[idx][2]))
    /\ UNCHANGED <<pvars, mvars>>

\* run_pipeline() raised: nothing in main() catches it, and main() ends with
\* the exception at line 96.
MainRunRaised ==
    /\ mpc = "in96"
    /\ pc = "caller"
    /\ history # <<>>
    /\ history[Len(history)].kind = "raised"
    /\ main_exc' = history[Len(history)].exc
    /\ mpc' = "ended"
    /\ UNCHANGED <<pvars, cvars, printed>>

\* run_pipeline() returned: main() holds the report.
MainRunReturned ==
    /\ mpc = "in96"
    /\ pc = "caller"
    /\ history # <<>>
    /\ history[Len(history)].kind = "returned"
    /\ mpc' = "line99"
    /\ UNCHANGED <<pvars, cvars, main_exc, printed>>

\* client.close_connection()
MainClose ==
    /\ mpc = "line99"
    /\ close_connection
    /\ mpc' = "line103"
    /\ UNCHANGED <<pvars, main_exc, printed>>

\* print(f"- {status} {r.name}: {r.message}")
ReportLine(r) ==
    "- " \o (IF r.ok THEN "OK" ELSE "FAIL") \o " " \o r.name \o ": " \o r.message

\* The report is printed: the heading and one line per outcome.
MainPrint ==
    /\ mpc = "line103"
    /\ printed' = <<"PIPELINE REPORT">>
                    \o [k \in 1..Len(heap[history[Len(history)].value]) |->
                          ReportLine(heap[history[Len(history)].value][k])]
    /\ mpc' = "ended"
    /\ UNCHANGED <<pvars, cvars, main_exc>>

\* main(): the steps of main() itself, of the pipeline it runs and of the
\* client methods it and its steps call.
NextMain ==
    \/ MainConnect
    \/ ConnectSucceeds /\ UNCHANGED <<pvars, mvars>>
    \/ ConnectFails /\ UNCHANGED <<pvars, mvars>>
    \/ ConnectGivesUp /\ UNCHANGED <<pvars, mvars>>
    \/ MainConnected
    \/ MainConnectRaised
    \/ MainRegister
    \/ MainRun
    \/ ForStep /\ UNCHANGED <<cvars, mvars>>
    \/ StepCallsMethod
    \/ OpenCursor /\ UNCHANGED <<pvars, mvars>>
    \/ ExecuteSucceeds /\ UNCHANGED <<pvars, mvars>>
    \/ ExecuteFails /\ UNCHANGED <<pvars, mvars>>
    \/ Fetch /\ UNCHANGED <<pvars, mvars>>
    \/ CloseCursor /\ UNCHANGED <<pvars, mvars>>
    \/ FnReturns /\ TakeRet /\ UNCHANGED mvars
    \/ FnRaisesException /\ TakeRet /\ UNCHANGED mvars
    \/ Reraise /\ UNCHANGED <<cvars, mvars>>
    \/ MainRunRaised

SpecMain == Init /\ [][NextMain]_vars

\* The steps of main() that come after a run that returns, and the guard's
\* raise: no behaviour of SpecMain enables them.
NextMainRest ==
    \/ ReturnResults /\ UNCHANGED <<cvars, mvars>>
    \/ NotConnected /\ UNCHANGED <<pvars, mvars>>
    \/ MainRunReturned
    \/ MainClose
    \/ MainPrint

SpecMainAll == Init /\ [][NextMain \/ NextMainRest]_vars

\* ------------------------------------------------ definitions for the claims
\* The list the current run (or, between runs, the last run) created.
RunReport == IF heap = <<>> THEN <<>> ELSE heap[Len(heap)]

\* What the caller got from the last finished run.
LastRun == history[Len(history)]

\* A run has ended and no other has begun: calls and RunReport are that run's.
RunEnded == pc = "caller" /\ history # <<>>

\* The operation succeeded, failed (raised an error, an Exception), or ended
\* in a BaseException that is no Exception.
Succeeded(c) == c.ending.kind = "return"
Failed(c) == c.ending.kind = "raise" /\ c.ending.exc.cls \in ExceptionClasses
Ended(c) == c.ending.kind # "pending"

\* The positions of the steps whose operation has failed in this run.
FailedPositions == {calls[i].pos : i \in {j \in 1..Len(calls) : Failed(calls[j])}}

\* How often the operation of the step at position p was invoked in this run.
Invocations(p) == Cardinality({i \in 1..Len(calls) : calls[i].pos = p})

\* A callable with one possible ending, and that a return.
Deterministic(fn) == Cardinality(Endings(fn)) = 1
AlwaysSucceeds(fn) == \A x \in Endings(fn) : x.kind = "return"

\* Two outcomes agree in all but their timestamps.
SameButTimes(r1, r2) == r1.name = r2.name /\ r1.ok = r2.ok /\ r1.message = r2.message

\* ---------------------------------------------------------------- claims

\* C1: a run in which no operation fails (every registered operation returns its
\* message) returns normally, and the returned report has exactly n outcomes,
\* the i-th carrying the i-th registered name and ok = TRUE.
C1_AllSucceedFullReport ==
    (RunEnded /\ \A i \in 1..Len(calls) : Succeeded(calls[i]))
    => /\ LastRun.kind = "returned"
       /\ LastRun.value \in 1..Len(heap)
       /\ Len(heap[LastRun.value]) = Len(LastRun.steps)
       /\ \A k \in 1..Len(LastRun.steps) :
            /\ heap[LastRun.value][k].name = LastRun.steps[k][1]
            /\ heap[LastRun.value][k].ok = TRUE

C1_Witness ==
    /\ RunEnded
    /\ LastRun.kind = "returned"
    /\ Len(LastRun.steps) = 2
    /\ LastRun.steps[1][1] # LastRun.steps[2][1]
    /\ Len(calls) = 2
    /\ \A i \in 1..Len(calls) : Succeeded(calls[i])

\* C2: when the handler is about to propagate the failure (it is at its bare
\* raise) and step k is the first step whose operation failed, the report holds
\* exactly k outcomes: 1..k-1 with ok = TRUE, and the k-th with ok = FALSE and
\* the name of step k.
C2_PartialReportAtFailure ==
    \A k \in 1..Len(pipeline_steps) :
        (pc = "raise" /\ k \in FailedPositions /\ \A j \in FailedPositions : k <= j)
        => /\ Len(heap[results]) = k
           /\ \A j \in 1..(k - 1) : heap[results][j].ok = TRUE
           /\ heap[results][k].ok = FALSE
           /\ heap[results][k].name = pipeline_steps[k][1]

C2_Witness ==
    /\ pc = "raise"
    /\ FailedPositions = {2}
    /\ Len(heap[results]) = 2
    /\ heap[results][1].ok
    /\ ~heap[results][2].ok

\* C3: fail-fast: in the log of a run's invocations no operation is invoked
\* after one that raised, so once the operation of step k has failed no step
\* k+1..n is invoked in that run.
C3_FailFast ==
    \A i \in 1..Len(calls) :
        calls[i].ending.kind = "raise"
        => /\ i = Len(calls)
           /\ \A p \in (calls[i].pos + 1)..Len(pipeline_steps) : Invocations(p) = 0

C3_Witness ==
    /\ RunEnded
    /\ Len(LastRun.steps) = 2
    /\ pipeline_steps = LastRun.steps
    /\ Len(calls) = 1
    /\ Failed(calls[1])
    /\ Invocations(2) = 0

\* A run in which an operation raised has ended with that exception at the
\* caller.
C4_RunWithFailureRaises ==
    \A i \in 1..Len(calls) :
        (RunEnded /\ calls[i].ending.kind = "raise")
        => /\ LastRun.kind = "raised"
           /\ LastRun.exc = calls[i].ending.exc

\* A step that hands an Exception to the caller starts in a state whose report
\* already ends with the failed outcome, and does not touch the report.
C4_RecordedBeforeRaised ==
    (Len(history') = Len(history) + 1
       /\ history'[Len(history')].kind = "raised"
       /\ history'[Len(history')].exc.cls \in ExceptionClasses)
    => /\ results \in 1..Len(heap)
       /\ Len(heap[results]) > 0
       /\ heap[results][Len(heap[results])].ok = FALSE
       /\ Failed(calls[Len(calls)])
       /\ history'[Len(history')].exc = calls[Len(calls)].ending.exc
       /\ heap' = heap

\* C4: a run in which a step's operation failed never returns normally: the
\* caller gets the very exception the operation raised (it is neither swallowed
\* nor replaced, and the run is not completed as if it had succeeded); and the
\* exception leaves run_pipeline() only after the failed outcome has been
\* appended to the report.
C4_FailurePropagated == [](C4_RunWithFailureRaises) /\ [][C4_RecordedBeforeRaised]_vars

C4_Witness ==
    /\ RunEnded
    /\ LastRun.kind = "raised"
    /\ LastRun.exc = Exc("KeyError", <<"rows">>)
    /\ Len(calls) = 2
    /\ Len(RunReport) = 2
    /\ ~RunReport[2].ok

\* C5: after run_pipeline() failed at step k, the caller that caught the
\* failure holds a reference to the partial report: k outcomes, the last one
\* the failed one.
C5_CallerHoldsPartialReport ==
    (RunEnded /\ LastRun.kind = "raised" /\ Failed(calls[Len(calls)]))
    => /\ LastRun.value \in 1..Len(heap)
       /\ Len(heap[LastRun.value]) = calls[Len(calls)].pos
       /\ heap[LastRun.value][Len(heap[LastRun.value])].ok = FALSE

\* The report holds one outcome per call that has ended, at the call's place.
C6_OutcomePerEndedCall ==
    /\ Len(RunReport) = Cardinality({i \in 1..Len(calls) : Ended(calls[i])})
    /\ \A i \in 1..Len(calls) :
         Ended(calls[i])
         => /\ i <= Len(RunReport)
            /\ RunReport[i].name = pipeline_steps[calls[i].pos][1]

\* No step removes or changes an outcome that is in a list.
C6_AppendedNeverChanged ==
    \A r \in 1..Len(heap) :
        /\ r <= Len(heap')
        /\ Len(heap'[r]) >= Len(heap[r])
        /\ \A k \in 1..Len(heap[r]) : heap'[r][k] = heap[r][k]

\* C6 as claimed: every step whose operation was invoked and has ended, whatever
\* way it ended, has exactly one outcome in the run's report, at its place; no
\* other step has one; and an outcome once appended is never changed.
C6_Original == [](C6_OutcomePerEndedCall) /\ [][C6_AppendedNeverChanged]_vars

\* The report holds one outcome per call that returned or raised an Exception,
\* and none for a call that ended otherwise.
C6_OutcomePerRecordedCall ==
    /\ Len(RunReport) =
         Cardinality({i \in 1..Len(calls) : Succeeded(calls[i]) \/ Failed(calls[i])})
    /\ \A i \in 1..Len(calls) :
         (Succeeded(calls[i]) \/ Failed(calls[i]))
         => /\ i <= Len(RunReport)
            /\ RunReport[i].name = pipeline_steps[calls[i].pos][1]
            /\ RunReport[i].ok = Succeeded(calls[i])
    /\ \A i \in 1..Len(calls) :
         (Ended(calls[i]) /\ ~Succeeded(calls[i]) /\ ~Failed(calls[i]))
         => Len(RunReport) = i - 1

\* C6 amended: every step whose operation returned or raised an Exception has
\* exactly one outcome in the run's report, at its place, ok exactly when it
\* returned; a step that was not invoked, or whose operation ended in a
\* BaseException that is no Exception (SystemExit, KeyboardInterrupt), has none;
\* and an outcome once appended is never changed.
C6_Amended == [](C6_OutcomePerRecordedCall) /\ [][C6_AppendedNeverChanged]_vars

C6_Witness ==
    /\ RunEnded
    /\ Len(calls) = 2
    /\ Succeeded(calls[1])
    /\ calls[2].ending = Raises("SystemExit", <<>>)
    /\ Len(RunReport) = 1

\* C7: the message recorded for a step whose operation returned is the value it
\* returned, and the message recorded for a step whose operation failed is
\* str() of the exception it raised.
C7_MessageFidelity ==
    \A i \in 1..Len(calls) :
        /\ Succeeded(calls[i])
           => (i <= Len(RunReport) /\ RunReport[i].message = calls[i].ending.value)
        /\ Failed(calls[i])
           => (i <= Len(RunReport) /\ RunReport[i].message = Str(calls[i].ending.exc))

C7_Witness ==
    /\ Len(calls) = 2
    /\ calls[1].ending = Returns("rows=1")
    /\ calls[2].ending = Raises("KeyError", <<"rows">>)
    /\ Len(RunReport) = 2
    /\ RunReport[1].message = "rows=1"
    /\ RunReport[2].message = "'rows'"

\* Two returned runs over the same deterministic succeeding steps gave two
\* different lists that agree in all but the timestamps.
C8_EqualDistinctReports ==
    \A i \in 1..Len(history), j \in 1..Len(history) :
        (/\ i < j
         /\ history[i].kind = "returned"
         /\ history[j].kind = "returned"
         /\ history[i].steps = history[j].steps
         /\ \A k \in 1..Len(history[i].steps) :
              Deterministic(history[i].steps[k][2]) /\ AlwaysSucceeds(history[i].steps[k][2]))
        => /\ history[i].value # history[j].value
           /\ Len(heap[history[i].value]) = Len(history[i].steps)
           /\ Len(heap[history[j].value]) = Len(history[j].steps)
           /\ \A k \in 1..Len(history[i].steps) :
                SameButTimes(heap[history[i].value][k], heap[history[j].value][k])

\* No step changes a list that a run has returned.
C8_ReturnedReportKept ==
    \A i \in 1..Len(history) :
        history[i].kind = "returned" => heap'[history[i].value] = heap[history[i].value]

\* C8: two runs of run_pipeline() on the same runner that both returned, over
\* the same steps, all deterministic and succeeding, gave two different list
\* objects of n outcomes each (the second holds none of the first run's
\* outcomes) that agree entry by entry in name, ok and message; and a later run
\* never changes a list an earlier run returned.
C8_Idempotent == [](C8_EqualDistinctReports) /\ [][C8_ReturnedReportKept]_vars

C8_Witness ==
    /\ Len(history) = 2
    /\ history[1].kind = "returned"
    /\ history[2].kind = "returned"
    /\ history[1].steps = history[2].steps
    /\ Len(history[1].steps) = 2
    /\ \A k \in 1..2 : history[1].steps[k][2] = "ok_a"
    /\ heap[history[1].value][1].started_at # heap[history[2].value][1].started_at

\* C9: a run on a runner with no registered step returns an empty report,
\* raises nothing and invokes no operation.
C9_EmptyPipeline ==
    (RunEnded /\ LastRun.steps = <<>>)
    => /\ LastRun.kind = "returned"
       /\ LastRun.value \in 1..Len(heap)
       /\ heap[LastRun.value] = <<>>
       /\ calls = <<>>

C9_Witness ==
    /\ RunEnded
    /\ Len(history) = 2
    /\ LastRun.steps = <<>>
    /\ LastRun.kind = "returned"

\* C10 as claimed: in every outcome of every report, started_at <= finished_at
\* as Python compares the two stored strings.
C10_Original ==
    \A r \in 1..Len(heap) :
        \A k \in 1..Len(heap[r]) :
            StrLeq(heap[r][k].started_at, heap[r][k].finished_at)

\* C10 amended: for every outcome recorded by run_pipeline(), started_at <=
\* finished_at as strings whenever the wall clock was not set back between the
\* two reads (the second read gave no earlier time than the first).
C10_OrderedUnlessSetBack ==
    \A i \in 1..Len(RunReport) :
        (i <= Len(reads) /\ reads[i].s <= reads[i].f)
        => StrLeq(RunReport[i].started_at, RunReport[i].finished_at)

C10_Witness ==
    /\ Len(RunReport) = 2
    /\ Len(reads) = 2
    /\ RunReport[1].ok
    /\ ~RunReport[2].ok
    /\ reads[1].s < reads[1].f
    /\ reads[2].s < reads[2].f
    /\ Len(RunReport[1].started_at) > Len(RunReport[1].finished_at)
    /\ Len(RunReport[2].started_at) < Len(RunReport[2].finished_at)

\* A step that changes the step sequence is a registration by the caller: it
\* appends exactly one pair, keeps the pairs before it as they were and changes
\* nothing else; no step of run_pipeline() changes the sequence.
C11_OnlyRegistrationAppends ==
    pipeline_steps' # pipeline_steps
    => /\ pc = "caller" /\ pc' = "caller"
       /\ Len(pipeline_steps') = Len(pipeline_steps) + 1
       /\ SubSeq(pipeline_steps', 1, Len(pipeline_steps)) = pipeline_steps
       /\ UNCHANGED <<heap, history, calls, results>>

\* Registration takes any name, registered already or not; and a returned run
\* has run every registered pair, duplicates included, each with its outcome.
C11_DuplicatesKeptAndRun ==
    /\ pc = "caller"
       => \A name \in StepNames, fn \in Fns : ENABLED add_steps_to_pipeline(name, fn)
    /\ (RunEnded /\ LastRun.kind = "returned")
       => /\ LastRun.steps = SubSeq(pipeline_steps, 1, Len(LastRun.steps))
          /\ Len(calls) = Len(LastRun.steps)
          /\ \A k \in 1..Len(calls) :
               calls[k].pos = k /\ RunReport[k].name = LastRun.steps[k][1]
    /\ RunEnded => LastRun.steps = SubSeq(pipeline_steps, 1, Len(LastRun.steps))

\* C11: add_steps_to_pipeline(name, fn) appends exactly one (name, fn) pair at
\* the end of the step sequence and leaves the pairs registered before and their
\* order unchanged; it accepts a name that is registered already, and both
\* pairs are kept and both are run; run_pipeline() leaves the step sequence
\* unchanged whether it returns or raises.
C11_RegistrationFrame ==
    [](C11_DuplicatesKeptAndRun) /\ [][C11_OnlyRegistrationAppends]_vars

C11_Witness ==
    /\ RunEnded
    /\ LastRun.kind = "returned"
    /\ Len(pipeline_steps) = 2
    /\ pipeline_steps[1][1] = pipeline_steps[2][1]
    /\ pipeline_steps[1][2] # pipeline_steps[2][2]
    /\ Len(RunReport) = 2
    /\ RunReport[1].name = RunReport[2].name
    /\ RunReport[1].message # RunReport[2].message

\* C12: strictly sequential: in one run each step's operation is invoked at
\* most once and in registration order; every call but the last has ended and
\* has its outcome, with finished_at, in the report before the next operation
\* is invoked; at most one operation is in progress, and while it is the
\* report holds the outcomes of exactly the calls before it.
C12_StrictlySequential ==
    /\ \A p \in 1..Len(pipeline_steps) : Invocations(p) <= 1
    /\ \A i \in 1..Len(calls) : calls[i].pos = i
    /\ \A i \in 1..(Len(calls) - 1) :
         /\ Ended(calls[i])
         /\ i <= Len(RunReport)
         /\ RunReport[i].finished_at # <<>>
    /\ Cardinality({i \in 1..Len(calls) : ~Ended(calls[i])}) <= 1
    /\ (pc = "call") = (\E i \in 1..Len(calls) : ~Ended(calls[i]))
    /\ pc = "call" => Len(RunReport) = Len(calls) - 1

C12_Witness ==
    /\ pc = "call"
    /\ Len(calls) = 2
    /\ Ended(calls[1])
    /\ ~Ended(calls[2])
    /\ Len(RunReport) = 1

\* C14: at every state of a run the report is a prefix of the registration
\* sequence (the i-th outcome carries the i-th registered name), it is no longer
\* than the step sequence, it holds at most one failed outcome, and a failed
\* outcome is its last entry.
C14_ReportIsPrefix ==
    results # 0
    => /\ Len(heap[results]) <= Len(pipeline_steps)
       /\ \A i \in 1..Len(heap[results]) :
            /\ heap[results][i].name = pipeline_steps[i][1]
            /\ ~heap[results][i].ok => i = Len(heap[results])
       /\ Cardinality({i \in 1..Len(heap[results]) : ~heap[results][i].ok}) <= 1

C14_Witness ==
    /\ pc = "raise"
    /\ Len(heap[results]) = 2
    /\ heap[results][1].name # heap[results][2].name
    /\ heap[results][1].ok
    /\ ~heap[results][2].ok

\* The operation in progress has no way to end.
Hung == pc = "call" /\ Endings(pipeline_steps[idx][2]) = {}

\* No run invokes more operations than there are registered steps.
C15_AtMostNInvocations == Len(calls) <= Len(pipeline_steps)

\* A run whose operations all end comes back to the caller.
C15_RunEnds == (pc # "caller") ~> (pc = "caller" \/ Hung)

\* Behind an operation that never ends nothing happens: the run does not end,
\* no later step is invoked and the report gets no outcome for the hung step.
C15_HungForGood ==
    Hung => /\ Hung'
            /\ UNCHANGED <<calls, heap, history>>
            /\ Len(RunReport) = Len(calls) - 1

\* C15: if every invoked operation eventually returns or raises, run_pipeline()
\* eventually ends, after at most n invocations; if an invoked operation never
\* returns, the run never ends, no later step is invoked and no outcome is
\* recorded for the hung step.
C15_Termination ==
    /\ [](C15_AtMostNInvocations)
    /\ C15_RunEnds
    /\ [][C15_HungForGood]_vars

C15_Witness ==
    /\ Hung
    /\ Len(calls) = 2
    /\ Len(RunReport) = 1
    /\ Len(history) = 1
    /\ history[1].kind = "returned"

\* The calls of connect_to_snowflake() that have ended.
ConnectCalls == {i \in 1..Len(oplog) : oplog[i].method = "connect_to_snowflake"}

\* The last call that ended was connect_to_snowflake(): attempts holds what it
\* tried.
ConnectEnded ==
    cpc = "idle" /\ oplog # <<>> /\ oplog[Len(oplog)].method = "connect_to_snowflake"

\* C13: connect_to_snowflake() tries the configured accounts in list order and
\* stops at the first one whose connect succeeds: nothing is tried after a
\* success, and the held connection is that account's new connection.  It
\* raises RuntimeError("Could not connect to Snowflake") only when every
\* account has failed, and then no new connection is stored: the attribute and
\* the connections are as they were before the call.
C13_FirstAccountThatConnects ==
    /\ Len(attempts) <= Len(ConnectionAccounts)
    /\ \A k \in 1..Len(attempts) :
         /\ attempts[k].account = ConnectionAccounts[k]
         /\ attempts[k].ok => k = Len(attempts) /\ cpc # "connect"
    /\ \A i \in ConnectCalls :
         /\ oplog[i].result.kind = "return"
            => /\ oplog[i].after.conns = oplog[i].before.conns + 1
               /\ oplog[i].after.conn = oplog[i].after.conns
         /\ oplog[i].result.kind = "raise"
            => /\ oplog[i].result.exc =
                    Exc("RuntimeError", <<"Could not connect to Snowflake">>)
               /\ oplog[i].after.conns = oplog[i].before.conns
               /\ oplog[i].after.conn = oplog[i].before.conn
    /\ ConnectEnded
       => /\ attempts # <<>>
          /\ oplog[Len(oplog)].result.kind = "return"
             => /\ attempts[Len(attempts)].ok
                /\ snowflake_connection = Len(connections)
                /\ connections[snowflake_connection].account
                     = attempts[Len(attempts)].account
                /\ connections[snowflake_connection].closes = 0
          /\ oplog[Len(oplog)].result.kind = "raise"
             => /\ Len(attempts) = Len(ConnectionAccounts)
                /\ \A k \in 1..Len(attempts) : ~attempts[k].ok

C13_Witness ==
    /\ ConnectEnded
    /\ Len(oplog) = 2
    /\ oplog[1].method = "connect_to_snowflake"
    /\ oplog[1].result.kind = "raise"
    /\ oplog[1].after.conn = 0
    /\ oplog[2].result.kind = "return"
    /\ Len(attempts) = 3
    /\ connections[snowflake_connection].account = ConnectionAccounts[3]

\* The exception of the guard.
NotConnectedError == Exc("RuntimeError", <<"Not connected to Snowflake">>)

\* The cursors that are open: opened and not closed.
OpenCursors == {k \in 1..Len(cursors) : cursors[k].closes = 0}

\* C19: connection guard: a call of fetch_dataframe_from_sql, show_session_info,
\* execute_sql, query_value or download_stage_to_local made while the client
\* holds no connection raises RuntimeError("Not connected to Snowflake") and
\* neither opens a cursor nor sends a statement; no method is ever past its
\* guard without a connection.  close_connection() leaves the attribute None;
\* with no connection it changes nothing, and no connection is closed twice.
C19_ConnectionGuard ==
    /\ \A i \in 1..Len(oplog) :
         /\ (oplog[i].method \in GuardedMethods /\ oplog[i].before.conn = 0)
            => /\ oplog[i].result.kind = "raise"
               /\ oplog[i].result.exc = NotConnectedError
               /\ oplog[i].after = oplog[i].before
         /\ oplog[i].method = "close_connection"
            => /\ oplog[i].result.kind = "return"
               /\ oplog[i].after.conn = 0
               /\ oplog[i].before.conn = 0 => oplog[i].after = oplog[i].before
               /\ oplog[i].before.conn # 0 => connections[oplog[i].before.conn].closes = 1
    /\ snowflake_connection = 0 => cur = 0 /\ cpc \in {"idle", "connect", "guard"}
    /\ snowflake_connection # 0 => connections[snowflake_connection].closes = 0
    /\ \A k \in 1..Len(connections) : connections[k].closes <= 1

C19_Witness ==
    /\ Len(oplog) = 4
    /\ oplog[1].method = "connect_to_snowflake" /\ oplog[1].result.kind = "return"
    /\ oplog[2].method = "close_connection" /\ oplog[2].before.conn = 1
    /\ oplog[3].method = "close_connection" /\ oplog[3].before.conn = 0
    /\ oplog[4].method = "download_stage_to_local"
    /\ oplog[4].result.exc = NotConnectedError
    /\ connections[1].closes = 1

\* C20: cursor balance: every cursor is opened by show_session_info,
\* execute_sql, query_value or download_stage_to_local, is the only open cursor
\* while its method runs, and is closed exactly once before the method ends,
\* whether the statement succeeded or raised; between calls no cursor is open.
C20_CursorBalance ==
    /\ \A k \in 1..Len(cursors) :
         /\ cursors[k].by \in GuardedMethods \ {"fetch_dataframe_from_sql"}
         /\ cursors[k].closes = IF k = cur THEN 0 ELSE 1
         /\ cursors[k].executes <= 1
    /\ OpenCursors = IF cur = 0 THEN {} ELSE {cur}
    /\ cur # 0 <=> cpc \in {"execute", "fetch", "finally"}
    /\ cpc = "idle" => OpenCursors = {}
    /\ \A i \in 1..Len(oplog) :
         oplog[i].after.cursors - oplog[i].before.cursors
           <= Len(Plan(oplog[i].method))

C20_Witness ==
    /\ cpc = "idle"
    /\ Len(oplog) = 4
    /\ oplog[2].method = "execute_sql"
    /\ oplog[2].result.kind = "raise"
    /\ oplog[2].result.exc.cls = "ProgrammingError"
    /\ oplog[3].method = "show_session_info"
    /\ oplog[3].result.kind = "return"
    /\ oplog[4].method = "copy_query_results_to_stage_csv"
    /\ oplog[4].result.kind = "return"
    /\ Len(cursors) = 4
    /\ \A k \in 1..4 : cursors[k].closes = 1 /\ cursors[k].executes = 1

\* main() has ended after it ran the pipeline.
MainEndedAfterRun == mpc = "ended" /\ history # <<>>

\* close_connection() has been called since the connection was opened.
CloseCalled == \E i \in 1..Len(oplog) : oplog[i].method = "close_connection"

\* C16: in main(), the connection opened before the run is closed after the run
\* on every path: when main() has ended after a run, whether run_pipeline()
\* returned or a step failed, close_connection() has been called and the client
\* holds no open connection.
C16_ClosedWhenMainEnds ==
    MainEndedAfterRun
    => /\ CloseCalled
       /\ snowflake_connection = 0
       /\ \A k \in 1..Len(connections) : connections[k].closes = 1

\* C17: in main(), after a run in which a step failed, the report has been
\* printed when main() ends: one line per attempted step, FAIL for the failed
\* step and OK for the steps before it.
C17_ReportPrintedAfterFailure ==
    (MainEndedAfterRun /\ \E i \in 1..Len(calls) : Failed(calls[i]))
    => /\ Len(printed) = 1 + Len(calls)
       /\ \A k \in 1..Len(calls) :
            printed[k + 1] = "- " \o (IF Failed(calls[k]) THEN "FAIL" ELSE "OK") \o " "
                             \o pipeline_steps[calls[k].pos][1] \o ": "
                             \o RunReport[k].message

\* Every call main() and its steps made of the client and the job runner
\* returned: the connection is up and Snowflake refused nothing.
AllSnowflakeCallsSucceeded ==
    /\ snowflake_connection # 0 \/ CloseCalled
    /\ \A i \in 1..Len(oplog) : oplog[i].result.kind = "return"

\* C18: in main()'s pipeline, with the connection up and every Snowflake call
\* succeeding, the four registered steps session_info, validate_mart_has_rows,
\* copy_into_stage and download_from_stage run in that order and each yields an
\* ok outcome: every method a step calls is one that SnowflakeClient or
\* SnowflakeJobRunner provides.
C18_AllFourStepsOk ==
    (MainEndedAfterRun /\ AllSnowflakeCallsSucceeded)
    => /\ LastRun.kind = "returned"
       /\ Len(calls) = Len(MainSteps)
       /\ Len(RunReport) = Len(MainSteps)
       /\ \A k \in 1..Len(RunReport) :
            /\ RunReport[k].name = MainSteps[k]
            /\ RunReport[k].ok
            /\ StepCalls(MainSteps[k]) \in ClientMethods \cup JobRunnerMethods

====
